---- MODULE Spec2Model ----
(***************************************************************************)
(* The two training-frame generators of HASHER:                            *)
(*   raw      : src/pipeline/1_DATA_MINER/scripts/generate_hello_world.py  *)
(*   remapped : src/scripts/generate_hello_world.py                        *)
(* Each script builds a list of frames with create_frame, creates the      *)
(* output directory, opens training_frames.json for writing, dumps the     *)
(* list as JSON and prints one summary line.                               *)
(*                                                                         *)
(* Python objects: a list lives on the heap and is passed by reference;    *)
(* a frame (dict) holds the references create_frame was given.             *)
(* Python integers are unbounded.  Token ids, targets, chunk ids fit the   *)
(* 32-bit integers of TLC; the feature words (0xAAAAAAAA > 2^31) are kept as *)
(* two 16-bit halves [hi, lo], value hi * 2^16 + lo.                       *)
(***************************************************************************)
EXTENDS Integers, Sequences, FiniteSets

VARIABLES
    variant,    \* which script this process runs: "raw" or "remapped"
    catalog,    \* the script's frames.append(create_frame(...)) statements
    ip,         \* index of the next append statement
    pc,         \* position in the script
    status,     \* "running", "done" (exit 0) or "failed" (uncaught exception)
    heap,       \* the process's list objects, by reference (index)
    frames,     \* the frames list: a sequence of frame dicts
    wpos,       \* chunks json.dump has written so far
    stdout,     \* lines printed by this process
    dirExists,  \* the directory out_dir exists
    file,       \* training_frames.json: [exists, data]
    runs,       \* processes started so far
    before,     \* history: the file as this process found it
    outputs     \* history: per script, the file its last completed earlier run left

vars == <<variant, catalog, ip, pc, status, heap, frames, wpos, stdout,
          dirExists, file, runs, before, outputs>>

\* ------------------------------------------------------------- bounds
\* Processes started one after the other in one behaviour.
MaxRuns == 3
\* Statements of a drawn catalog (SpecEncoder).
MaxCalls == 2

\* ------------------------------------------------------------ integers
WordBase == 2^16

\* A feature word from a small integer literal.
PyInt(n) == [hi |-> n \div WordBase, lo |-> n % WordBase]

RECURSIVE HexValue(_)
HexValue(ds) ==
    IF ds = <<>> THEN 0 ELSE 16 * HexValue(SubSeq(ds, 1, Len(ds) - 1)) + ds[Len(ds)]

\* A feature word from the eight hex digits of a literal 0xHHHHLLLL.
Hex(ds) == [hi |-> HexValue(SubSeq(ds, 1, 4)), lo |-> HexValue(SubSeq(ds, 5, 8))]

\* Variant: one repetition short.
RECURSIVE ListRepeatShort(_, _)
ListRepeatShort(xs, n) == IF n <= 1 THEN <<>> ELSE xs \o ListRepeatShort(xs, n - 1)

\* [x] * n
RECURSIVE ListRepeat(_, _)
ListRepeat(xs, n) == IF n <= 0 THEN <<>> ELSE xs \o ListRepeat(xs, n - 1)

\* ------------------------------------------------------------ catalogs
Variants == {"raw", "remapped"}

Entry(source, chunk, start, tokens, target, slots) ==
    [source |-> source, chunk |-> chunk, start |-> start,
     tokens |-> tokens, target |-> target, slots |-> slots]

ZeroSlots == ListRepeat(<<PyInt(0)>>, 12)

RawCatalog ==
    << Entry("demo.txt", 1, 0, <<9906>>, 1917, ZeroSlots),
       Entry("demo.txt", 2, 0, <<1917>>, 0, ZeroSlots),
       Entry("demo.txt", 3, 0, <<14957>>, 0, ZeroSlots),
       Entry("demo.txt", 4, 0, <<6504, 261>>, 1917, ZeroSlots),
       Entry("demo.txt", 5, 0, <<8460, 261>>, 1917, ZeroSlots),
       Entry("demo.txt", 6, 0, <<3923>>, 374, ZeroSlots),
       Entry("demo.txt", 7, 0, <<374>>, 701, ZeroSlots),
       Entry("demo.txt", 8, 0, <<701>>, 836, ZeroSlots),
       Entry("demo.txt", 9, 0, <<836>>, 30, ZeroSlots),
       Entry("demo.txt", 10, 0, <<59175>>, 701, ZeroSlots) >>

H1 == Hex(<<1, 1, 1, 1, 1, 1, 1, 1>>)
H2 == Hex(<<2, 2, 2, 2, 2, 2, 2, 2>>)
H3 == Hex(<<3, 3, 3, 3, 3, 3, 3, 3>>)
H4 == Hex(<<4, 4, 4, 4, 4, 4, 4, 4>>)
HA == Hex(<<10, 10, 10, 10, 10, 10, 10, 10>>)
HB == Hex(<<11, 11, 11, 11, 11, 11, 11, 11>>)
HC == Hex(<<12, 12, 12, 12, 12, 12, 12, 12>>)
HD == Hex(<<13, 13, 13, 13, 13, 13, 13, 13>>)
Z == PyInt(0)
H1000 == Hex(<<0, 0, 0, 0, 1, 0, 0, 0>>)

Pattern1Slots(step, pos) ==
    <<H1, H2, H3, H4, PyInt(step), Z, Z, Z, Z, Z, H1000, PyInt(pos)>>

Pattern2Slots(step, pos) ==
    <<HA, HB, HC, HD, PyInt(step), Z, Z, Z, Z, PyInt(1), H1000, PyInt(pos)>>

RemappedCatalog ==
    << Entry("demo.txt", 1, 0, <<906>>, 917, Pattern1Slots(1, 0)),
       Entry("demo.txt", 1, 0, <<906, 917>>, 0, Pattern1Slots(2, 1)),
       Entry("demo.txt", 2, 0, <<923, 374>>, 701, Pattern2Slots(1, 0)),
       Entry("demo.txt", 2, 0, <<923, 374, 701>>, 836, Pattern2Slots(2, 1)),
       Entry("demo.txt", 2, 0, <<923, 374, 701, 836>>, 30, Pattern2Slots(3, 2)) >>

PatternCatalog(v) == IF v = "raw" THEN RawCatalog ELSE RemappedCatalog

\* Variant of the raw encoder: the target is reduced as in the other script.
create_frame_raw_remap(h, source, chunk, start, tokens, target, slots) ==
    [ret |-> [source_file |-> source,
              chunk_id |-> chunk,
              window_start |-> start,
              token_sequence |-> tokens,
              target_token |-> target % 1000,
              feature_vector |-> slots,
              context_hash |-> 0],
     heap |-> h]

\* Variant of the remapped encoder: the reduction is left out.
create_frame_remapped_noremap(h, source, chunk, start, tokens, target, slots) ==
    [ret |-> [source_file |-> source,
              chunk_id |-> chunk,
              window_start |-> start,
              token_sequence |-> tokens,
              target_token |-> target,
              feature_vector |-> slots,
              context_hash |-> 0],
     heap |-> h]

\* Variant of the remapped encoder: a vocabulary of 100.
create_frame_remapped_mod100(h, source, chunk, start, tokens, target, slots) ==
    [ret |-> [source_file |-> source,
              chunk_id |-> chunk,
              window_start |-> start,
              token_sequence |-> tokens,
              target_token |-> target % 100,
              feature_vector |-> slots,
              context_hash |-> 0],
     heap |-> h]

\* Variant of the remapped encoder: the token list is padded in place with
\* zeros to four entries (tokens.extend([0] * (4 - len(tokens)))).
create_frame_remapped_pad(h, source, chunk, start, tokens, target, slots) ==
    [ret |-> [source_file |-> source,
              chunk_id |-> chunk,
              window_start |-> start,
              token_sequence |-> tokens,
              target_token |-> target % 1000,
              feature_vector |-> slots,
              context_hash |-> 0],
     heap |-> [h EXCEPT ![tokens] =
                  @ \o [k \in 1..(4 - Len(@)) |-> 0]]]

\* ---------------------------------------------------------- create_frame
\* Both return the frame and the heap as the call leaves it.
create_frame_raw(h, source, chunk, start, tokens, target, slots) ==
    [ret |-> [source_file |-> source,
              chunk_id |-> chunk,
              window_start |-> start,
              token_sequence |-> tokens,
              target_token |-> target,
              feature_vector |-> slots,
              context_hash |-> 0],
     heap |-> h]

create_frame_remapped(h, source, chunk, start, tokens, target, slots) ==
    LET vocab_target == target % 1000
    IN  [ret |-> [source_file |-> source,
                  chunk_id |-> chunk,
                  window_start |-> start,
                  token_sequence |-> tokens,
                  target_token |-> vocab_target,
                  feature_vector |-> slots,
                  context_hash |-> 0],
         heap |-> h]

create_frame(v, h, source, chunk, start, tokens, target, slots) ==
    IF v = "raw"
    THEN create_frame_raw(h, source, chunk, start, tokens, target, slots)
    ELSE create_frame_remapped(h, source, chunk, start, tokens, target, slots)

\* Variant: frames.insert(0, x)
list_insert_front(fs, x) == <<x>> \o fs

\* frames.append(x)
list_append(fs, x) == Append(fs, x)

\* One statement frames.append(create_frame(<literals>)): the two list
\* literals are built (tokens, then slots), the call is made, the result
\* is appended.
ExecAppend(v, h, fs, e) ==
    LET h1 == Append(h, e.tokens)
        tokRef == Len(h1)
        h2 == Append(h1, e.slots)
        slotRef == Len(h2)
        r == create_frame(v, h2, e.source, e.chunk, e.start, tokRef, e.target, slotRef)
    IN  [heap |-> r.heap, frames |-> list_append(fs, r.ret)]

\* The whole list-building part of a script, statement by statement.
RECURSIVE BuildFrames(_, _, _)
BuildFrames(v, cat, n) ==
    IF n = 0 THEN [heap |-> <<>>, frames |-> <<>>]
    ELSE LET s == BuildFrames(v, cat, n - 1)
         IN  ExecAppend(v, s.heap, s.frames, cat[n])

\* ------------------------------------------------------------- json.dump
DigitChar == <<"0", "1", "2", "3", "4", "5", "6", "7", "8", "9">>

RECURSIVE IntDigits(_)
IntDigits(n) ==
    IF n < 10 THEN <<DigitChar[n + 1]>>
    ELSE IntDigits(n \div 10) \o <<DigitChar[(n % 10) + 1]>>

\* The decimal text of an integer.
int_repr(n) == IF n < 0 THEN <<"-">> \o IntDigits(-n) ELSE IntDigits(n)

\* Long division of a feature word by ten.
WordDivTen(w) ==
    LET t == (w.hi % 10) * WordBase + w.lo
    IN  [q |-> [hi |-> w.hi \div 10, lo |-> t \div 10], r |-> t % 10]

\* The decimal text of a feature word.
RECURSIVE word_repr(_)
word_repr(w) ==
    IF w.hi = 0 /\ w.lo < 10 THEN <<DigitChar[w.lo + 1]>>
    ELSE LET d == WordDivTen(w) IN word_repr(d.q) \o <<DigitChar[d.r + 1]>>

\* indent=2: a line break and `level` indentation units.
NewlineIndent(level) == <<"\n">> \o [i \in 1..level |-> "  "]

JsonString(s) == <<"\"", s, "\"">>

\* The first k items of a list or dict body, each on its own line.
RECURSIVE JsonItems(_, _, _)
JsonItems(items, k, level) ==
    IF k = 0 THEN <<>>
    ELSE JsonItems(items, k - 1, level)
         \o (IF k = 1 THEN <<>> ELSE <<",">>) \o NewlineIndent(level) \o items[k]

JsonList(items, level) ==
    IF items = <<>> THEN <<"[]">>
    ELSE <<"[">> \o JsonItems(items, Len(items), level + 1)
         \o NewlineIndent(level) \o <<"]">>

JsonMember(key, val) == JsonString(key) \o <<": ">> \o val

JsonDict(members, level) ==
    <<"{">> \o JsonItems(members, Len(members), level + 1)
    \o NewlineIndent(level) \o <<"}">>

\* One frame dict, keys in insertion order; the lists are read from the heap.
EncodeFrame(f, h, level) ==
    LET toks == h[f.token_sequence]
        slots == h[f.feature_vector]
    IN  JsonDict(<< JsonMember("source_file", JsonString(f.source_file)),
                    JsonMember("chunk_id", int_repr(f.chunk_id)),
                    JsonMember("window_start", int_repr(f.window_start)),
                    JsonMember("token_sequence",
                        JsonList([i \in 1..Len(toks) |-> int_repr(toks[i])], level + 1)),
                    JsonMember("target_token", int_repr(f.target_token)),
                    JsonMember("feature_vector",
                        JsonList([i \in 1..Len(slots) |-> word_repr(slots[i])], level + 1)),
                    JsonMember("context_hash", int_repr(f.context_hash)) >>,
                 level)

\* What json.dump(frames, f, indent=2) hands to f.write, in order: one chunk
\* per frame (with the bracket or comma before it) and a closing chunk.
DumpChunks(fs, h) ==
    IF fs = <<>> THEN << <<"[]">> >>
    ELSE [i \in 1..(Len(fs) + 1) |->
            IF i <= Len(fs)
            THEN (IF i = 1 THEN <<"[">> ELSE <<",">>)
                 \o NewlineIndent(1) \o EncodeFrame(fs[i], h, 1)
            ELSE NewlineIndent(0) \o <<"]">>]

RECURSIVE Concat(_, _)
Concat(chunks, k) == IF k = 0 THEN <<>> ELSE Concat(chunks, k - 1) \o chunks[k]

\* The whole text of a completed dump.
JsonText(fs, h) == LET c == DumpChunks(fs, h) IN Concat(c, Len(c))

\* The file a complete run of script v over catalog cat writes.
CorpusText(v, cat) ==
    LET s == BuildFrames(v, cat, Len(cat)) IN JsonText(s.frames, s.heap)

\* ----------------------------------------------------------- file system
out_dir == "~/.local/share/hasher/data/frames"
out_path == <<out_dir, "training_frames.json">>

Absent == [exists |-> FALSE, data |-> <<>>]
Holding(text) == [exists |-> TRUE, data |-> text]

\* Variant: open(out_path, "a"), the earlier content is kept.
open_a(f) == Holding(f.data)

\* Variant: each write replaces what the file holds.
write_replace(f, chunk) == Holding(chunk)

\* open(out_path, "w"): the file is created or truncated.
open_w(f) == Holding(<<>>)

\* f.write(chunk) reaching the file.
write(f, chunk) == Holding(f.data \o chunk)

\* ---------------------------------------------------------------- actions
Running(at) == status = "running" /\ pc = at

AppendFrame ==
    /\ Running("append")
    /\ ip <= Len(catalog)
    /\ LET s == ExecAppend(variant, heap, frames, catalog[ip])
       IN  /\ heap' = s.heap
           /\ frames' = s.frames
    /\ ip' = ip + 1
    /\ pc' = IF ip = Len(catalog) THEN "makedirs" ELSE "append"
    /\ UNCHANGED <<variant, catalog, status, wpos, stdout, dirExists, file,
                   runs, before, outputs>>

\* os.makedirs(out_dir, exist_ok=True)
Makedirs ==
    /\ Running("makedirs")
    /\ dirExists' = TRUE
    /\ pc' = "open"
    /\ UNCHANGED <<variant, catalog, ip, status, heap, frames, wpos, stdout,
                   file, runs, before, outputs>>

Raise ==
    /\ status' = "failed"
    /\ UNCHANGED <<variant, catalog, ip, pc, heap, frames, wpos, stdout,
                   dirExists, file, runs, before, outputs>>

\* The directory is missing and cannot be created.
MakedirsFail == Running("makedirs") /\ ~dirExists /\ Raise

Open ==
    /\ Running("open")
    /\ dirExists
    /\ file' = open_w(file)
    /\ wpos' = 0
    /\ pc' = "dump"
    /\ UNCHANGED <<variant, catalog, ip, status, heap, frames, stdout,
                   dirExists, runs, before, outputs>>

OpenFail == Running("open") /\ Raise

DumpWrite ==
    /\ Running("dump")
    /\ LET chunks == DumpChunks(frames, heap)
       IN  /\ wpos < Len(chunks)
           /\ file' = write(file, chunks[wpos + 1])
           /\ wpos' = wpos + 1
           /\ pc' = IF wpos + 1 = Len(chunks) THEN "close" ELSE "dump"
    /\ UNCHANGED <<variant, catalog, ip, status, heap, frames, stdout,
                   dirExists, runs, before, outputs>>

\* Variant: the write error is caught and ignored (except OSError: pass).
DumpFailSwallowed ==
    /\ status = "running" /\ pc = "dump"
    /\ pc' = "close"
    /\ UNCHANGED <<variant, catalog, ip, status, heap, frames, wpos, stdout,
                   dirExists, file, runs, before, outputs>>

\* A write fails; the with statement closes the file and the error goes on.
DumpFail == Running("dump") /\ Raise

\* Leaving the with block.
Close ==
    /\ Running("close")
    /\ pc' = "print"
    /\ UNCHANGED <<variant, catalog, ip, status, heap, frames, wpos, stdout,
                   dirExists, file, runs, before, outputs>>

CloseFail == Running("close") /\ Raise

SummaryLine(v, n) ==
    [count |-> n,
     what |-> IF v = "raw" THEN "robust demo frames" ELSE "demo frames",
     path |-> out_path]

PrintSummary ==
    /\ Running("print")
    /\ stdout' = Append(stdout, SummaryLine(variant, Len(frames)))
    /\ pc' = "exit"
    /\ status' = "done"
    /\ UNCHANGED <<variant, catalog, ip, heap, frames, wpos, dirExists, file,
                   runs, before, outputs>>

\* The process is over; script v is started again on the same file system.
Rerun(v) ==
    /\ status \in {"done", "failed"}
    /\ runs < MaxRuns
    /\ variant' = v
    /\ catalog' = PatternCatalog(v)
    /\ ip' = 1
    /\ pc' = "append"
    /\ status' = "running"
    /\ heap' = <<>>
    /\ frames' = <<>>
    /\ wpos' = 0
    /\ stdout' = <<>>
    /\ runs' = runs + 1
    /\ before' = file
    /\ outputs' = IF status = "done"
                  THEN [outputs EXCEPT ![variant] = file.data]
                  ELSE outputs
    /\ UNCHANGED <<dirExists, file>>

\* ------------------------------------------------------------ behaviours
\* An earlier, longer corpus: both catalogs written by one raw-mode run.
LongerCatalog == RawCatalog \o RemappedCatalog

InitialFiles ==
    { Absent,
      Holding(<<>>),
      Holding(CorpusText("raw", RawCatalog)),
      Holding(CorpusText("remapped", RemappedCatalog)),
      Holding(CorpusText("raw", LongerCatalog)) }

Start(v, cat, f, d) ==
    /\ variant = v
    /\ catalog = cat
    /\ ip = 1
    /\ pc = "append"
    /\ status = "running"
    /\ heap = <<>>
    /\ frames = <<>>
    /\ wpos = 0
    /\ stdout = <<>>
    /\ dirExists = d
    /\ file = f
    /\ runs = 1
    /\ before = f
    /\ outputs = [w \in Variants |-> <<>>]

Init ==
    \E v \in Variants, f \in InitialFiles, d \in BOOLEAN :
        /\ f.exists => d
        /\ Start(v, PatternCatalog(v), f, d)

Step ==
    \/ AppendFrame
    \/ Makedirs
    \/ MakedirsFail
    \/ Open
    \/ OpenFail
    \/ DumpWrite
    \/ DumpFail
    \/ Close
    \/ CloseFail
    \/ PrintSummary

Next == Step \/ \E v \in Variants : Rerun(v)

Spec == Init /\ [][Next]_vars

\* The encoder on drawn inputs: the same statements, with the arguments of
\* each create_frame call taken from test sets instead of the literals.
\* Argument lists of lengths 1 to 4, with feature lists of several lengths
\* (create_frame checks none of them).
TestLists ==
    { << <<906>>, ZeroSlots >>,
      << <<906, 917>>, Pattern1Slots(2, 1) >>,
      << <<923, 374, 701>>, <<HA, HB>> >>,
      << <<923, 374, 701, 836>>, <<>> >> }

\* Targets tried with every list, and targets around the vocabulary size
\* tried with the first.
TestTargets == {0, 1917}

EdgeTargets == {917, 999, 1000, 59175}

TestEntries ==
    { Entry("demo.txt", 1, 0, l[1], g, l[2]) : l \in TestLists, g \in TestTargets }
    \cup { Entry("demo.txt", 1, 0, <<906>>, g, ZeroSlots) : g \in EdgeTargets }

TestCatalogs == UNION { [1..n -> TestEntries] : n \in 1..MaxCalls }

InitEncoder ==
    \E v \in Variants, cat \in TestCatalogs : Start(v, cat, Absent, FALSE)

NextEncoder == Step

SpecEncoder == InitEncoder /\ [][NextEncoder]_vars

\* ------------------------------------------------- reading the file back
\* A consumer's reader of training_frames.json: the text is parsed into
\* frame values (lists by value), or rejected.  Position 0 means "no parse".
At(t, i) == IF i >= 1 /\ i <= Len(t) THEN t[i] ELSE "<eof>"

RECURSIVE SkipSpace(_, _)
SkipSpace(t, i) == IF At(t, i) \in {"\n", "  "} THEN SkipSpace(t, i + 1) ELSE i

Expect(t, i, tok) == IF At(t, i) = tok THEN i + 1 ELSE 0

ExpectKey(t, i, key) ==
    Expect(t, Expect(t, Expect(t, Expect(t, i, "\""), key), "\""), ": ")

Comma(t, i) == SkipSpace(t, Expect(t, SkipSpace(t, i), ","))

NoParse == [ok |-> FALSE, val |-> <<>>, pos |-> 0]

IsDigit(c) == \E d \in 1..10 : DigitChar[d] = c
DigitValue(c) == (CHOOSE d \in 1..10 : DigitChar[d] = c) - 1

RECURSIVE ScanDigits(_, _)
ScanDigits(t, i) == IF IsDigit(At(t, i)) THEN ScanDigits(t, i + 1) ELSE i

RECURSIVE DigitsToInt(_, _, _)
DigitsToInt(t, from, to) ==
    IF to < from THEN 0 ELSE 10 * DigitsToInt(t, from, to - 1) + DigitValue(t[to])

RECURSIVE DigitsToWord(_, _, _)
DigitsToWord(t, from, to) ==
    IF to < from THEN [hi |-> 0, lo |-> 0]
    ELSE LET w == DigitsToWord(t, from, to - 1)
             l == 10 * w.lo + DigitValue(t[to])
         IN  [hi |-> 10 * w.hi + l \div WordBase, lo |-> l % WordBase]

\* A decimal number at i: an integer, or (wide) a feature word.
ParseNumber(t, i, wide) ==
    LET neg == At(t, i) = "-"
        from == IF neg THEN i + 1 ELSE i
        end == ScanDigits(t, from)
    IN  IF end = from \/ end - from > (IF wide THEN 10 ELSE 9) \/ (wide /\ neg)
        THEN NoParse
        ELSE [ok |-> TRUE,
              val |-> IF wide THEN DigitsToWord(t, from, end - 1)
                      ELSE IF neg THEN -DigitsToInt(t, from, end - 1)
                      ELSE DigitsToInt(t, from, end - 1),
              pos |-> end]

RECURSIVE ParseListItems(_, _, _, _)
ParseListItems(t, i, wide, acc) ==
    LET n == ParseNumber(t, i, wide)
        j == SkipSpace(t, n.pos)
    IN  IF ~n.ok THEN NoParse
        ELSE IF At(t, j) = ","
        THEN ParseListItems(t, SkipSpace(t, j + 1), wide, Append(acc, n.val))
        ELSE IF At(t, j) = "]"
        THEN [ok |-> TRUE, val |-> Append(acc, n.val), pos |-> j + 1]
        ELSE NoParse

ParseList(t, i, wide) ==
    IF At(t, i) = "[]" THEN [ok |-> TRUE, val |-> <<>>, pos |-> i + 1]
    ELSE IF At(t, i) = "[" THEN ParseListItems(t, SkipSpace(t, i + 1), wide, <<>>)
    ELSE NoParse

ParseString(t, i) ==
    IF At(t, i) = "\"" /\ At(t, i + 2) = "\""
    THEN [ok |-> TRUE, val |-> t[i + 1], pos |-> i + 3]
    ELSE NoParse

\* One frame object at i.  The fields are read one after the other.
ParseFrame(t, i) ==
    LET a == SkipSpace(t, Expect(t, i, "{"))
        s == ParseString(t, ExpectKey(t, a, "source_file"))
        c == ParseNumber(t, ExpectKey(t, Comma(t, s.pos), "chunk_id"), FALSE)
        w == ParseNumber(t, ExpectKey(t, Comma(t, c.pos), "window_start"), FALSE)
        ts == ParseList(t, ExpectKey(t, Comma(t, w.pos), "token_sequence"), FALSE)
        g == ParseNumber(t, ExpectKey(t, Comma(t, ts.pos), "target_token"), FALSE)
        fv == ParseList(t, ExpectKey(t, Comma(t, g.pos), "feature_vector"), TRUE)
        h == ParseNumber(t, ExpectKey(t, Comma(t, fv.pos), "context_hash"), FALSE)
        z == Expect(t, SkipSpace(t, h.pos), "}")
    IN  IF a = 0 THEN NoParse
        ELSE IF ~s.ok THEN NoParse
        ELSE IF ~c.ok THEN NoParse
        ELSE IF ~w.ok THEN NoParse
        ELSE IF ~ts.ok THEN NoParse
        ELSE IF ~g.ok THEN NoParse
        ELSE IF ~fv.ok THEN NoParse
        ELSE IF ~h.ok THEN NoParse
        ELSE IF z = 0 THEN NoParse
        ELSE [ok |-> TRUE,
              val |-> [source_file |-> s.val,
                       chunk_id |-> c.val,
                       window_start |-> w.val,
                       token_sequence |-> ts.val,
                       target_token |-> g.val,
                       feature_vector |-> fv.val,
                       context_hash |-> h.val],
              pos |-> z]

\* The JSON array of frames the text holds: [ok, val].  Every object of the
\* array starts at a "{"; each must be a frame, followed by a comma and the
\* next one or, the last, by the closing bracket that ends the text.
ParseCorpus(t) ==
    IF t = <<"[]">> THEN [ok |-> TRUE, val |-> <<>>]
    ELSE LET starts == SelectSeq([i \in 1..Len(t) |-> i], LAMBDA i : t[i] = "{")
             n == Len(starts)
             fr == [k \in 1..n |-> ParseFrame(t, starts[k])]
         IN  IF /\ n >= 1
                /\ At(t, 1) = "["
                /\ SkipSpace(t, 2) = starts[1]
                /\ \A k \in 1..n :
                      /\ fr[k].ok
                      /\ IF k < n THEN Comma(t, fr[k].pos) = starts[k + 1]
                         ELSE /\ SkipSpace(t, fr[k].pos) = Len(t)
                              /\ t[Len(t)] = "]"
             THEN [ok |-> TRUE, val |-> [k \in 1..n |-> fr[k].val]]
             ELSE [ok |-> FALSE, val |-> <<>>]

\* A frame of the process with its lists read from the heap.
FrameValue(f, h) ==
    [f EXCEPT !.token_sequence = h[f.token_sequence],
              !.feature_vector = h[f.feature_vector]]

FrameValues(fs, h) == [i \in 1..Len(fs) |-> FrameValue(fs[i], h)]

\* The Frame the data model defines for a catalog entry in mode v.
ExpectedFrame(v, e) ==
    [source_file |-> e.source,
     chunk_id |-> e.chunk,
     window_start |-> e.start,
     token_sequence |-> e.tokens,
     target_token |-> IF v = "raw" THEN e.target ELSE e.target % 1000,
     feature_vector |-> e.slots,
     context_hash |-> 0]

Done == status = "done"
Failed == status = "failed"
Written == ParseCorpus(file.data)

\* ------------------------------------------------------------ properties

\* C1 (SpecEncoder): in Remapped mode the frame's target_token is the
\* remainder of the target by 1000: it lies in 0..999 and differs from the
\* target by a multiple of 1000; target 1917 gives 917 and target 0 gives 0.
C1_RemappedTarget ==
    variant = "remapped" =>
        \A i \in 1..Len(frames) :
            LET r == frames[i].target_token
                g == catalog[i].target
            IN  /\ r \in 0..999
                /\ LET q == (g - r) \div 1000 IN q >= 0 /\ g = 1000 * q + r
                /\ (g = 1917 => r = 917)
                /\ (g = 0 => r = 0)

C1_Witness ==
    /\ variant = "remapped"
    /\ \E i \in 1..Len(frames) :
          catalog[i].target = 1917 /\ frames[i].target_token = 917
    /\ \E i \in 1..Len(frames) :
          catalog[i].target = 0 /\ frames[i].target_token = 0

\* C2 (SpecEncoder): in Raw mode the frame's target_token is the target,
\* unchanged, also for targets of 1000 or more.
C2_RawTarget ==
    variant = "raw" =>
        \A i \in 1..Len(frames) : frames[i].target_token = catalog[i].target

C2_Witness ==
    /\ variant = "raw"
    /\ \E i \in 1..Len(frames) :
          catalog[i].target = 59175 /\ frames[i].target_token = 59175
    /\ \E i \in 1..Len(frames) :
          catalog[i].target = 1000 /\ frames[i].target_token = 1000

\* C3 (Spec): the list handed to the writer and the JSON array written hold
\* one frame per catalog entry (10 raw, 5 remapped), the i-th built from the
\* i-th entry: none dropped, duplicated or reordered.
C3_CatalogOrderKept ==
    LET wr == Written IN
        /\ Len(catalog) = (IF variant = "raw" THEN 10 ELSE 5)
        /\ Len(frames) = ip - 1
        /\ pc # "append" => Len(frames) = Len(catalog)
        /\ \A i \in 1..Len(frames) :
              /\ i <= Len(catalog)
              /\ FrameValue(frames[i], heap) = ExpectedFrame(variant, catalog[i])
        /\ Done =>
              /\ wr.ok
              /\ Len(wr.val) = Len(catalog)
              /\ \A i \in 1..Len(wr.val) :
                    wr.val[i] = ExpectedFrame(variant, catalog[i])

C3_Witness ==
    LET wr == Written IN
        /\ Done
        /\ variant = "raw"
        /\ Len(wr.val) = 10
        /\ wr.val[1].token_sequence = <<9906>>
        /\ wr.val[10].token_sequence = <<59175>>

\* C4 (Spec): every frame of both generators, in memory and as written,
\* has a feature_vector of exactly 12 entries.
C4_FeatureArity ==
    LET wr == Written IN
        /\ \A i \in 1..Len(frames) : Len(heap[frames[i].feature_vector]) = 12
        /\ Done =>
              /\ wr.ok
              /\ \A i \in 1..Len(wr.val) : Len(wr.val[i].feature_vector) = 12

C4_Witness ==
    LET wr == Written IN
        /\ Done
        /\ variant = "remapped"
        /\ Len(wr.val) = 5
        /\ Len(wr.val[5].feature_vector) = 12
        /\ wr.val[5].feature_vector[1] = HA

\* C5, in every state.
C5_State ==
    \A i \in 1..Len(frames) :
        /\ i <= Len(catalog)
        /\ 2 * i <= Len(heap)
        /\ Len(catalog[i].tokens) \in 1..4
        /\ heap[frames[i].token_sequence] = catalog[i].tokens
        /\ heap[frames[i].feature_vector] = catalog[i].slots
        /\ heap[2 * i - 1] = catalog[i].tokens
        /\ heap[2 * i] = catalog[i].slots

\* C5, in every step.
C5_Step ==
    \A i \in 1..Len(frames) :
        /\ i <= Len(frames')
        /\ frames'[i] = frames[i]
        /\ heap'[frames[i].token_sequence] = heap[frames[i].token_sequence]
        /\ heap'[frames[i].feature_vector] = heap[frames[i].feature_vector]

\* C5 (SpecEncoder): create_frame neither truncates nor pads and changes no
\* argument: for token lists of length 1 to 4 and any feature list, the
\* frame's two lists equal the supplied ones element for element, the
\* supplied list objects (the two built by the i-th statement) still hold
\* what they were built with, and no later step changes a frame already
\* appended.
C5_NoSideEffects == []C5_State /\ [][C5_Step]_vars

C5_Witness ==
    /\ Done
    /\ variant = "remapped"
    /\ Len(frames) = 2
    /\ Len(heap[frames[1].token_sequence]) = 1
    /\ Len(heap[frames[2].token_sequence]) = 4
    /\ heap[frames[1].feature_vector] = ZeroSlots

\* C6 (Spec): a completed run leaves the same text, token for token, as the
\* last completed earlier run of the same script, whatever the file held
\* when either run started.
C6_Deterministic ==
    (Done /\ outputs[variant] # <<>>) => file.data = outputs[variant]

C6_Witness ==
    /\ Done
    /\ outputs[variant] # <<>>
    /\ before.data # outputs[variant]
    /\ file.data = outputs[variant]

\* C7 (Spec): after a successful run the file holds exactly the frames of
\* that run, whatever it held before: nothing is appended or merged.
C7_Overwrite ==
    LET wr == Written IN
        Done =>
            /\ file.exists
            /\ file.data = JsonText(frames, heap)
            /\ wr.ok
            /\ wr.val = FrameValues(frames, heap)

C7_Witness ==
    LET wr == Written IN
        /\ Done
        /\ variant = "remapped"
        /\ before = Holding(CorpusText("raw", LongerCatalog))
        /\ Len(before.data) > Len(file.data)
        /\ Len(wr.val) = 5

\* C8 (Spec): no partial success: a run that fails leaves the target file
\* as it found it or holding the full corpus, never a truncated or
\* incomplete one.
C8_NoPartialCorpus ==
    Failed => \/ file = before
              \/ file.data = JsonText(frames, heap)

\* C9, in every state.
C9_State ==
    LET wr == Written IN
        /\ Failed => /\ stdout = <<>>
                     /\ pc \in {"makedirs", "open", "dump", "close"}
        /\ Len(stdout) <= 1
        /\ Done => Len(stdout) = 1
        /\ stdout # <<>> =>
              /\ Done
              /\ dirExists
              /\ file.exists
              /\ wr.ok
              /\ stdout[1].count = Len(wr.val)
              /\ stdout[1].count = Len(frames)
              /\ stdout[1].path = out_path

\* C9, in every step.
C9_Step ==
    /\ Failed => runs' = runs + 1
    /\ (status = "running" /\ status' = "failed") =>
          /\ pc' = pc
          /\ file' = file
          /\ stdout' = stdout
    /\ (runs' = runs /\ stdout' # stdout) =>
          /\ pc = "print"
          /\ dirExists
          /\ wpos = Len(DumpChunks(frames, heap))
          /\ file.data = JsonText(frames, heap)

\* C9 (Spec): a failure of makedirs, open or the write ends the run at that
\* step: the process takes no further step and prints no summary.  The
\* summary is printed once, only after makedirs and the whole write, and
\* its count is the number of frames in the file.
C9_FatalErrors == []C9_State /\ [][C9_Step]_vars

C9_Witness ==
    LET wr == Written IN
        /\ Failed
        /\ pc = "dump"
        /\ wpos > 0
        /\ stdout = <<>>
        /\ ~wr.ok

\* C10 (Spec): in the remapped generator's output, consecutive frames of
\* one chunk_id chain: the later token_sequence is the earlier one with the
\* earlier target_token appended; the remap changes no catalog target.
C10_NextTokenChain ==
    LET wr == Written IN
        (Done /\ variant = "remapped") =>
            /\ wr.ok
            /\ \A i \in 1..(Len(wr.val) - 1) :
                  wr.val[i].chunk_id = wr.val[i + 1].chunk_id =>
                      wr.val[i + 1].token_sequence =
                          Append(wr.val[i].token_sequence, wr.val[i].target_token)
            /\ \A i \in 1..Len(wr.val) :
                  wr.val[i].target_token = catalog[i].target

C10_Witness ==
    LET wr == Written IN
        /\ Done
        /\ variant = "remapped"
        /\ wr.val[1].chunk_id = wr.val[2].chunk_id
        /\ wr.val[2].token_sequence = <<906, 917>>
        /\ wr.val[2].chunk_id # wr.val[3].chunk_id
        /\ wr.val[5].token_sequence = <<923, 374, 701, 836>>

====
